---- MODULE Spec2Model ----
(***************************************************************************)
(* A model of pepe's preprocessing engine, src/pepe/__init__.py:           *)
(* preprocess() scanning a file line by line, the conditional stack        *)
(* `states`, the define table, the #include recursion with its guard       *)
(* `_preprocessed_files`, and the lines written to the output.             *)
(*                                                                         *)
(* One top-level call preprocess("a", fout, defines) is modelled.  The     *)
(* call stack of the recursion is `frames`: the last frame is the call     *)
(* that is running, every frame below it waits in its #include handler.    *)
(* A step reads and handles one line of the running call; the lines of a   *)
(* file are drawn as they are read (a path is opened at most once in a     *)
(* top-level call, because the guard never shrinks).                       *)
(***************************************************************************)
EXTENDS Integers, Sequences, FiniteSets, TLC

\* ------------------------------------------------------------ bounds
\* The lines read in one top-level call, over all the files it enters.
MaxLines == 4

\* ------------------------------------------------------------ constants
SKIP == 0
EMIT == 1

\* The paths of the model; the top-level call is on TopFile.
Files == {"a", "b", "c"}
TopFile == "a"
\* The symbols directives may name.
Names == {"A"}
\* A symbol of the table the caller passes that no directive names.
OtherName == "B"
\* The values a #define may store: None (no value), the literals 1 and 0,
\* and a raw token that is the path of a file.
Values == {"None", "1", "0", "b"}
\* The expressions of #if and #elif: literals, a name, a syntax error.
BadSyntax == "1 +"
Exprs == {"1", "0", "A", BadSyntax}

NoError == [type |-> "", msg |-> "", file |-> "", line |-> 0]

VARIABLES
    status,         \* "idle", "running", "done" (returned), "failed" (raised)
    frames,         \* the call stack of preprocess(): infile, lineNum, states
    defines,        \* the define table, without its two reserved keys
    defFile,        \* defines['__FILE__']
    defLine,        \* defines['__LINE__'] (0: not set yet)
    preprocessed,   \* _preprocessed_files
    fs,             \* the paths that exist
    keepLines,      \* should_keep_lines
    out,            \* what was written to fout, one entry per write
    err,            \* the exception that ended the call
    line,           \* the line handled by the last step
    evaluated,      \* history: the last step called _evaluate
    incLines,       \* history: lines read by the #include calls that returned
    outfile,        \* how the top-level call got its output: "stream", "path"
    forceOverwrite, \* should_force_overwrite
    disk,           \* the file at the output path: "absent", "old" (as it was
                    \* before the call), "created", "truncated" (the old file
                    \* opened for writing)
    opened,         \* the handles the call has opened and not closed
    calls,          \* the top-level calls that ended before the running one
    registry,       \* a ContentTypesRegistry: filenameMap, suffixMap, regexMap
    path,           \* the file get_content_type is asked about
    contentType     \* what get_content_type returned ("unset": not called)

vars == <<status, frames, defines, defFile, defLine, preprocessed, fs,
          keepLines, out, err, line, evaluated, incLines, outfile,
          forceOverwrite, disk, opened,
          calls, registry, path, contentType>>

\* The registry and the file of a run that does not ask for a content type.
NoRegistry == [filenameMap |-> <<>>, suffixMap |-> <<>>, regexMap |-> <<>>]
NoFile == [basename |-> "", xml |-> FALSE]

\* ------------------------------------------------------------ lines
Line(op, arg, val) == [op |-> op, arg |-> arg, val |-> val]

NoLine == Line("", "", "")

ContentLines == {Line("content", "x", "")}
IfLines == {Line("if", e, "") : e \in Exprs}
    \cup {Line(o, n, "") : o \in {"ifdef", "ifndef"}, n \in Names}
ElifLines == {Line("elif", e, "") : e \in Exprs}
DefineLines == {Line("define", n, v) : n \in Names, v \in Values}
UndefLines == {Line("undef", n, "") : n \in Names}
\* #include "path" (val = "fname") and #include VAR (val = "var").
IncludeLines == {Line("include", f, "fname") : f \in Files}
    \cup {Line("include", n, "var") : n \in Names}
ErrorLines == {Line("error", "boom", "")}

\* ------------------------------------------------------------ helpers
Last(s) == s[Len(s)]
Front(s) == SubSeq(s, 1, Len(s) - 1)
Range(s) == {s[i] : i \in 1..Len(s)}

\* Python truthiness of a stored value.
Truthy(v) == v \notin {"None", "0", ""}

\* The expression #ifdef and #ifndef build from their operand.
DefinedExpr(name) == "defined('" \o name \o "')"
NotDefinedExpr(name) == "not defined('" \o name \o "')"

\* Defined that asks for a true value.
Defined_Truthy(name, defs) == name \in DOMAIN defs /\ Truthy(defs[name])

\* `lambda v: v in defines`, the defined() of an expression.
Defined(name, defs) == name \in DOMAIN defs

\* _evaluate(expr, defines): the value's truth, or the failure it raises.
Evaluate(expr, defs) ==
    IF expr = "1" THEN [ok |-> TRUE, val |-> TRUE, msg |-> ""]
    ELSE IF expr = "0" THEN [ok |-> TRUE, val |-> FALSE, msg |-> ""]
    ELSE IF \E n \in Names : expr = DefinedExpr(n)
    THEN [ok |-> TRUE,
          val |-> Defined(CHOOSE n \in Names : expr = DefinedExpr(n), defs),
          msg |-> ""]
    ELSE IF \E n \in Names : expr = NotDefinedExpr(n)
    THEN [ok |-> TRUE,
          val |-> ~Defined(CHOOSE n \in Names : expr = NotDefinedExpr(n), defs),
          msg |-> ""]
    ELSE IF expr \in Names
    THEN IF expr \in DOMAIN defs
         THEN [ok |-> TRUE, val |-> Truthy(defs[expr]), msg |-> ""]
         ELSE [ok |-> FALSE, val |-> FALSE,
               msg |-> "name '" \o expr \o "' is not defined"]
    ELSE [ok |-> FALSE, val |-> FALSE,
          msg |-> "invalid syntax: '" \o expr \o "'"]

\* Skipping reading <have-emitted-in-this-if-block> for the mode.
Skipping_WrongField(states) == states # <<>> /\ Last(states)[2] = SKIP

\* `states and states[-1][0] == SKIP`
Skipping(states) == states # <<>> /\ Last(states)[1] = SKIP

\* The expression of an #if, #ifdef or #ifndef line.
IfExpr(l) ==
    IF l.op = "if" THEN l.arg
    ELSE IF l.op = "ifdef" THEN DefinedExpr(l.arg)
    ELSE NotDefinedExpr(l.arg)

\* IfArm that evaluates the condition whatever the enclosing mode.
IfArm_AlwaysEvaluate(states) == "evaluate"

\* Which arm of the #if handler runs.
IfArm(states) == IF Skipping(states) THEN "nested" ELSE "evaluate"

\* ElifArm without the test of <have-emitted-in-this-if-block>.
ElifArm_NoEmittedTest(states) ==
    IF states = <<>> THEN "IndexError"
    ELSE IF Last(states)[3] = 1 THEN "afterElse"
    ELSE IF Front(states) # <<>> /\ states[Len(states) - 1][1] = SKIP THEN "nested"
    ELSE "evaluate"

\* ElifArm without the test of the enclosing block's mode.
ElifArm_EvaluateWhenNested(states) ==
    IF states = <<>> THEN "IndexError"
    ELSE IF Last(states)[3] = 1 THEN "afterElse"
    ELSE IF Last(states)[2] = 1 THEN "emitted"
    ELSE "evaluate"

\* Which arm of the #elif handler runs.
ElifArm(states) ==
    IF states = <<>> THEN "IndexError"
    ELSE IF Last(states)[3] = 1 THEN "afterElse"
    ELSE IF Last(states)[2] = 1 THEN "emitted"
    ELSE IF Front(states) # <<>> /\ states[Len(states) - 1][1] = SKIP THEN "nested"
    ELSE "evaluate"

\* ElseArm testing <have-emitted> before <have-seen-'else'>.
ElseArm_EmittedFirst(states) ==
    IF states = <<>> THEN "IndexError"
    ELSE IF Last(states)[2] = 1 THEN "emitted"
    ELSE IF Last(states)[3] = 1 THEN "afterElse"
    ELSE IF Front(states) # <<>> /\ states[Len(states) - 1][1] = SKIP THEN "nested"
    ELSE "emit"

\* ElseArm without the test of the enclosing block's mode.
ElseArm_EmitWhenNested(states) ==
    IF states = <<>> THEN "IndexError"
    ELSE IF Last(states)[3] = 1 THEN "afterElse"
    ELSE IF Last(states)[2] = 1 THEN "emitted"
    ELSE "emit"

\* Which arm of the #else handler runs.
ElseArm(states) ==
    IF states = <<>> THEN "IndexError"
    ELSE IF Last(states)[3] = 1 THEN "afterElse"
    ELSE IF Last(states)[2] = 1 THEN "emitted"
    ELSE IF Front(states) # <<>> /\ states[Len(states) - 1][1] = SKIP THEN "nested"
    ELSE "emit"

\* states.pop(): the stack after it, when it does not raise IndexError.
CanPop(states) == states # <<>>

\* RecursiveInclude that sees only the file that includes.
RecursiveInclude_DirectOnly(infile, guard) ==
    guard # <<>> /\ infile = Last(guard)

\* The recursion guard's test at the entry of preprocess().
RecursiveInclude(infile, guard) == infile \in Range(guard)

\* The guard after a call on infile has been entered.
GuardEnter(guard, infile) == Append(guard, infile)

\* The guard when a call returns: nothing is removed from it.
GuardReturn(guard, infile) == guard

\* The search of an #include'd file: the resolved path, or "" for none.
FindInclude(f, exists) == IF f \in exists THEN f ELSE ""

\* The end-of-input check.
EndCheck(states) ==
    IF Len(states) > 1 THEN "unterminated #if block"
    ELSE IF Len(states) < 1 THEN "superfluous #endif on or before this line"
    ELSE ""

\* KeepLine that writes nothing.
KeepLine_Nothing(o) == o

\* `if should_keep_lines: fout.write("\n")` after a directive.
KeepLine(o) == IF keepLines THEN Append(o, "\n") ELSE o

\* ContentOut that drops a skipped line also when lines are kept.
ContentOut_DropsSkipped(st, text, o) ==
    IF st[1] = EMIT THEN Append(o, text) ELSE o

\* What a content line adds to the output under the top entry st: the
\* line (substitution off) when EMIT, else a blank line if lines are kept.
ContentOut(st, text, o) ==
    IF st[1] = EMIT THEN Append(o, text) ELSE KeepLine(o)

\* The file at the output path once the call has its fout: an existing
\* file is removed first only under force; open(outfile, 'w') then creates
\* the file or truncates the one that is there.
OpenOut(kind, force, d) ==
    IF kind # "path" THEN d
    ELSE IF d = "old" /\ ~force THEN "truncated"
    ELSE "created"

\* The handles open once the call has read its input and has its fout: fin
\* is closed right after readlines(); fout is the call's own handle only
\* when outfile is a path.
OpenedAtEntry(kind) == IF kind = "path" THEN {"fout"} ELSE {}

\* CloseOut that closes fout whatever the call was given.
CloseOut_Always(kind, h) == h \ {"fout"}

\* `if fout != outfile: fout.close()` on the normal return; an #include'd
\* call is given the stream of the call that made it.
CloseOut(kind, h) == IF kind = "path" THEN h \ {"fout"} ELSE h

\* The message of the failure an #error raises: `"#error: " + error`.
ErrorMessage(arg) == "#error: " \o arg

\* Undefine that drops the whole table with the key.
Undefine_Clear(defs, var) ==
    IF var \in DOMAIN defs THEN [n \in {} |-> defs[n]] ELSE defs

\* `try: del defines[var]` / `except KeyError: pass`
Undefine(defs, var) == [n \in DOMAIN defs \ {var} |-> defs[n]]

\* ------------------------------------------------------------ frames
\* history, per entry of `states`: byIf, the entry was pushed by an #if,
\* #ifdef or #ifndef; nEmit, how many branches of the block were EMIT;
\* nElse, how many #else lines the block has taken.
Block(byIf, nEmit, nElse) == [byIf |-> byIf, nEmit |-> nEmit, nElse |-> nElse]

\* A call's state as its first line is read; surplus (history): an
\* #endif was met with no #if open; entry (history): the define table the
\* call was given.
NewFrame(infile, defs) ==
    [infile |-> infile, lineNum |-> 0, states |-> <<<<EMIT, 0, 0>>>>,
     blocks |-> <<Block(FALSE, 0, 0)>>, surplus |-> FALSE, entry |-> defs]

\* ReturnedDefines of a call that worked on a copy of the table.
ReturnedDefines_CallersCopy(given, returned) == given

\* `defines = preprocess(fname, fout, defines, ...)`: the table the caller
\* goes on with, given the one it passed and the one the call returns.
ReturnedDefines(given, returned) == returned

Top == Last(frames)
SetTop(fr) == [frames EXCEPT ![Len(frames)] = fr]

\* The running call with its next line read.
Read == [Top EXCEPT !.lineNum = @ + 1]

\* The stack with its top entry replaced.
Replace(states, st) == [states EXCEPT ![Len(states)] = st]

\* The history of a block whose top entry becomes st at an #elif or #else.
Branch(blocks, st, op) ==
    [blocks EXCEPT ![Len(blocks)].nEmit = IF st[1] = EMIT THEN @ + 1 ELSE @,
                   ![Len(blocks)].nElse = IF op = "else" THEN @ + 1 ELSE @]

Raise(type, msg, file, lineno) ==
    /\ status' = "failed"
    /\ err' = [type |-> type, msg |-> msg, file |-> file, line |-> lineno]

\* A PreprocessorError at the current position.
RaiseHere(msg) == Raise("PreprocessorError", msg, defFile, defLine')

\* The lines read so far by the calls on the stack.
RECURSIVE LinesRead(_)
LinesRead(fr) == IF fr = <<>> THEN 0 ELSE Last(fr).lineNum + LinesRead(Front(fr))

Running == status = "running" /\ incLines + LinesRead(frames) < MaxLines

\* ------------------------------------------------------------ Init
Init ==
    /\ status = "idle"
    /\ frames = <<>>
    /\ defines \in {[n \in D |-> "1"] :
                       D \in {{}, Names, Names \cup {OtherName}}}
    /\ defFile = ""
    /\ defLine = 0
    /\ preprocessed = <<>>
    /\ fs \in {Files \ {"c"}, Files}
    /\ keepLines \in BOOLEAN
    /\ out = <<>>
    /\ err = NoError
    /\ line = NoLine
    /\ evaluated = FALSE
    /\ incLines = 0
    /\ outfile = "stream"
    /\ forceOverwrite = FALSE
    /\ disk = "absent"
    /\ opened = {}
    /\ calls = 0
    /\ registry = NoRegistry
    /\ path = NoFile
    /\ contentType = "unset"

\* The call that is given its output as a path, which may exist.
InitOut ==
    /\ status = "idle"
    /\ frames = <<>>
    /\ defines = [n \in {} |-> "1"]
    /\ defFile = ""
    /\ defLine = 0
    /\ preprocessed = <<>>
    /\ fs = Files
    /\ keepLines \in BOOLEAN
    /\ out = <<>>
    /\ err = NoError
    /\ line = NoLine
    /\ evaluated = FALSE
    /\ incLines = 0
    /\ outfile = "path"
    /\ forceOverwrite \in BOOLEAN
    /\ disk \in {"absent", "old"}
    /\ opened = {}
    /\ calls = 0
    /\ registry = NoRegistry
    /\ path = NoFile
    /\ contentType = "unset"

\* ------------------------------------------------------------ actions
\* The top-level call preprocess(TopFile, fout, defines): lines 309-394.
Start ==
    /\ status = "idle"
    /\ status' = "running"
    /\ preprocessed' = GuardEnter(preprocessed, TopFile)
    /\ frames' = <<NewFrame(TopFile, defines)>>
    /\ defFile' = TopFile
    /\ disk' = OpenOut(outfile, forceOverwrite, disk)
    /\ opened' = OpenedAtEntry(outfile)
    /\ UNCHANGED <<defines, defLine, fs, keepLines, out, err, line,
                   evaluated, incLines, outfile, forceOverwrite,
                   calls, registry, path, contentType>>

\* A content line: lines 532-553.
Content ==
    /\ Running
    /\ \E l \in ContentLines :
        /\ line' = l
        /\ defLine' = Top.lineNum + 1
        /\ evaluated' = FALSE
        /\ frames' = SetTop(Read)
        /\ IF Top.states = <<>>
           THEN /\ RaiseHere("superfluous #endif before this line")
                /\ UNCHANGED out
           ELSE /\ out' = ContentOut(Last(Top.states), l.arg, out)
                /\ UNCHANGED <<status, err>>
    /\ UNCHANGED <<defines, defFile, preprocessed, fs, keepLines, incLines,
                   outfile, forceOverwrite, disk, opened,
                   calls, registry, path, contentType>>

\* What every directive handler leaves alone but the include handler.
Stay == UNCHANGED <<defFile, preprocessed, fs, keepLines, incLines,
                    outfile, forceOverwrite, disk, opened,
                    calls, registry, path, contentType>>

\* #define: lines 413-423.
Define ==
    /\ Running
    /\ \E l \in DefineLines :
        /\ line' = l
        /\ defLine' = Top.lineNum + 1
        /\ evaluated' = FALSE
        /\ frames' = SetTop(Read)
        /\ defines' = IF Skipping(Top.states) THEN defines
                      ELSE [n \in DOMAIN defines \cup {l.arg} |->
                               IF n = l.arg THEN l.val ELSE defines[n]]
        /\ out' = KeepLine(out)
    /\ Stay
    /\ UNCHANGED <<status, err>>

\* #undef: lines 424-430.
Undef ==
    /\ Running
    /\ \E l \in UndefLines :
        /\ line' = l
        /\ defLine' = Top.lineNum + 1
        /\ evaluated' = FALSE
        /\ frames' = SetTop(Read)
        /\ defines' = IF Skipping(Top.states) THEN defines
                      ELSE Undefine(defines, l.arg)
        /\ out' = KeepLine(out)
    /\ Stay
    /\ UNCHANGED <<status, err>>

\* #if, #ifdef, #ifndef: lines 457-476.
If ==
    /\ Running
    /\ \E l \in IfLines :
        LET r == Evaluate(IfExpr(l), defines)
            arm == IfArm(Top.states)
            st == IF arm = "evaluate" /\ r.val THEN <<EMIT, 1, 0>>
                  ELSE <<SKIP, 0, 0>>
        IN  /\ line' = l
            /\ defLine' = Top.lineNum + 1
            /\ evaluated' = (arm = "evaluate")
            /\ IF arm = "evaluate" /\ ~r.ok
               THEN /\ frames' = SetTop(Read)
                    /\ RaiseHere(r.msg)
                    /\ UNCHANGED out
               ELSE /\ frames' = SetTop([Read EXCEPT
                            !.states = Append(@, st),
                            !.blocks = Append(@, Block(TRUE,
                                          IF st[1] = EMIT THEN 1 ELSE 0, 0))])
                    /\ out' = KeepLine(out)
                    /\ UNCHANGED <<status, err>>
    /\ Stay
    /\ UNCHANGED defines

\* #elif: lines 477-497.
Elif ==
    /\ Running
    /\ \E l \in ElifLines :
        LET r == Evaluate(l.arg, defines)
            arm == ElifArm(Top.states)
            st == IF arm = "emitted" THEN <<SKIP, 1, 0>>
                  ELSE IF arm = "nested" THEN <<SKIP, 0, 0>>
                  ELSE IF r.val THEN <<EMIT, 1, 0>>
                  ELSE <<SKIP, 0, 0>>
        IN  /\ line' = l
            /\ defLine' = Top.lineNum + 1
            /\ evaluated' = (arm = "evaluate")
            /\ IF arm \in {"IndexError", "afterElse"} \/ (arm = "evaluate" /\ ~r.ok)
               THEN /\ frames' = SetTop(Read)
                    /\ RaiseHere(IF arm = "IndexError"
                                 THEN "#elif stmt without leading #if stmt"
                                 ELSE IF arm = "afterElse"
                                 THEN "illegal #elif after #else in same #if block"
                                 ELSE r.msg)
                    /\ UNCHANGED out
               ELSE /\ frames' = SetTop([Read EXCEPT
                            !.states = Replace(@, st),
                            !.blocks = Branch(@, st, "elif")])
                    /\ out' = KeepLine(out)
                    /\ UNCHANGED <<status, err>>
    /\ Stay
    /\ UNCHANGED defines

\* #else: lines 498-515.
Else ==
    /\ Running
    /\ LET arm == ElseArm(Top.states)
           st == IF arm = "emitted" THEN <<SKIP, 1, 1>>
                 ELSE IF arm = "nested" THEN <<SKIP, 0, 1>>
                 ELSE <<EMIT, 1, 1>>
       IN  /\ line' = Line("else", "", "")
           /\ defLine' = Top.lineNum + 1
           /\ evaluated' = FALSE
           /\ IF arm \in {"IndexError", "afterElse"}
              THEN /\ frames' = SetTop(Read)
                   /\ RaiseHere(IF arm = "IndexError"
                                THEN "#else stmt without leading #if stmt"
                                ELSE "illegal #else after #else in same #if block")
                   /\ UNCHANGED out
              ELSE /\ frames' = SetTop([Read EXCEPT
                           !.states = Replace(@, st),
                           !.blocks = Branch(@, st, "else")])
                   /\ out' = KeepLine(out)
                   /\ UNCHANGED <<status, err>>
    /\ Stay
    /\ UNCHANGED defines

\* #endif: lines 516-522.
Endif ==
    /\ Running
    /\ line' = Line("endif", "", "")
    /\ defLine' = Top.lineNum + 1
    /\ evaluated' = FALSE
    /\ IF CanPop(Top.states)
       THEN /\ frames' = SetTop([Read EXCEPT
                    !.states = Front(@),
                    !.blocks = Front(@),
                    !.surplus = @ \/ ~Last(Top.blocks).byIf])
            /\ out' = KeepLine(out)
            /\ UNCHANGED <<status, err>>
       ELSE /\ frames' = SetTop([Read EXCEPT !.surplus = TRUE])
            /\ RaiseHere("#endif stmt without leading #ifstmt")
            /\ UNCHANGED out
    /\ Stay
    /\ UNCHANGED defines

\* #error: lines 523-528.
Error ==
    /\ Running
    /\ \E l \in ErrorLines :
        /\ line' = l
        /\ defLine' = Top.lineNum + 1
        /\ evaluated' = FALSE
        /\ frames' = SetTop(Read)
        /\ IF Skipping(Top.states)
           THEN /\ out' = KeepLine(out)
                /\ UNCHANGED <<status, err>>
           ELSE /\ RaiseHere(ErrorMessage(l.arg))
                /\ UNCHANGED out
    /\ Stay
    /\ UNCHANGED defines

\* The operand of an #include: a quoted path, or the value of a symbol
\* ("KeyError" when the symbol is not defined).
IncludeRef(l, defs) ==
    IF l.val = "fname" THEN l.arg
    ELSE IF l.arg \in DOMAIN defs THEN defs[l.arg]
    ELSE "KeyError"

\* #include, up to the recursive call's entry: lines 431-456 and 309-394.
\* The handler's last statement runs when the call returns (EndOfFile).
Include ==
    /\ Running
    /\ \E l \in IncludeLines :
        LET f == IncludeRef(l, defines)
            fname == FindInclude(f, fs)
        IN  /\ line' = l
            /\ defLine' = Top.lineNum + 1
            /\ evaluated' = FALSE
            /\ IF Skipping(Top.states)
               THEN /\ frames' = SetTop(Read)
                    /\ out' = KeepLine(out)
                    /\ UNCHANGED <<status, err, preprocessed, defFile>>
               ELSE IF f = "KeyError" \/ f \in {"None", "1", "0"} \/ fname = ""
                       \/ RecursiveInclude(fname, preprocessed)
               THEN /\ frames' = SetTop(Read)
                    /\ IF f = "KeyError" THEN Raise("KeyError", l.arg, "", 0)
                       ELSE IF f \in {"None", "1", "0"}
                       THEN Raise("AttributeError", f, "", 0)
                       ELSE IF fname = ""
                       THEN Raise("PreprocessorError",
                                  "could not find #include'd file", "", 0)
                       ELSE Raise("PreprocessorError",
                                  "detected recursive #include", "", 0)
                    /\ UNCHANGED <<out, preprocessed, defFile>>
               ELSE /\ frames' = Append(SetTop(Read), NewFrame(fname, defines))
                    /\ preprocessed' = GuardEnter(preprocessed, fname)
                    /\ defFile' = fname
                    /\ UNCHANGED <<status, err, out>>
    /\ UNCHANGED <<defines, fs, keepLines, incLines, outfile, forceOverwrite,
                   disk, opened,
                   calls, registry, path, contentType>>

\* The end of the running call's input: lines 554-564, and for an
\* #include'd file the rest of the caller's handler, lines 450 and 529-531.
EndOfFile ==
    /\ status = "running"
    /\ line' = NoLine
    /\ evaluated' = FALSE
    /\ IF EndCheck(Top.states) # ""
       THEN /\ Raise("PreprocessorError", EndCheck(Top.states), defFile, defLine)
            /\ UNCHANGED <<frames, out, preprocessed, incLines, opened>>
       ELSE IF Len(frames) = 1
       THEN /\ status' = "done"
            /\ opened' = CloseOut(outfile, opened)
            /\ UNCHANGED <<frames, out, preprocessed, incLines, err>>
       ELSE /\ frames' = Front(frames)
            /\ preprocessed' = GuardReturn(preprocessed, Top.infile)
            /\ incLines' = incLines + Top.lineNum
            /\ out' = KeepLine(out)
            /\ opened' = CloseOut("stream", opened)
            /\ UNCHANGED <<status, err>>
    /\ defines' = IF EndCheck(Top.states) = "" /\ Len(frames) > 1
                  THEN ReturnedDefines(Top.entry, defines)
                  ELSE defines
    /\ UNCHANGED <<defFile, defLine, fs, keepLines, outfile, forceOverwrite,
                   disk,
                   calls, registry, path, contentType>>

Next ==
    \/ Start
    \/ Content
    \/ Define
    \/ Undef
    \/ Include
    \/ If
    \/ Elif
    \/ Else
    \/ Endif
    \/ Error
    \/ EndOfFile

Spec == Init /\ [][Next]_vars

\* The same program, its output given as a path.
SpecOut == InitOut /\ [][Next]_vars

\* ------------------------------------------------------------ substitution
\* Spec and SpecOut run with should_substitute off and take a content line
\* as one token. SpecSubst runs with should_substitute on, over lines,
\* names and values that are sequences of characters. Its names differ in
\* length, so the order of `reversed(sorted(defines, key=len))` is fixed;
\* its lines do not hold the reserved names __FILE__ and __LINE__.
MaxText == 2
Chars == {"A", "B"}
SubstNames == {<<"A">>, <<"A", "B">>}
\* str(value) of the values a #define may store.
SubstValues == {<<"1">>, <<"A">>}
SubstTexts == UNION {[1..n -> Chars] : n \in 1..MaxText}

\* s.replace(name, value): every occurrence of name, left to right, not
\* overlapping.
RECURSIVE StrReplace(_, _, _)
StrReplace(s, name, value) ==
    IF Len(s) < Len(name) THEN s
    ELSE IF SubSeq(s, 1, Len(name)) = name
    THEN value \o StrReplace(SubSeq(s, Len(name) + 1, Len(s)), name, value)
    ELSE <<s[1]>> \o StrReplace(Tail(s), name, value)

\* reversed(sorted(names, key=len)): the longest name first.
RECURSIVE LongestFirst(_)
LongestFirst(S) ==
    IF S = {} THEN <<>>
    ELSE LET n == CHOOSE n \in S : \A m \in S : Len(m) <= Len(n)
         IN  <<n>> \o LongestFirst(S \ {n})

\* The loop of lines 540-543: one replace per name, each over the line as
\* the replaces before it left it.
RECURSIVE ReplaceEach(_, _, _)
ReplaceEach(s, names, defs) ==
    IF names = <<>> THEN s
    ELSE ReplaceEach(StrReplace(s, Head(names), defs[Head(names)]),
                     Tail(names), defs)

Substitute(s, defs) == ReplaceEach(s, LongestFirst(DOMAIN defs), defs)

InitSubst ==
    /\ status = "idle"
    /\ frames = <<>>
    /\ defines = [n \in {} |-> <<>>]
    /\ defFile = ""
    /\ defLine = 0
    /\ preprocessed = <<>>
    /\ fs = Files
    /\ keepLines \in BOOLEAN
    /\ out = <<>>
    /\ err = NoError
    /\ line = NoLine
    /\ evaluated = FALSE
    /\ incLines = 0
    /\ outfile = "stream"
    /\ forceOverwrite = FALSE
    /\ disk = "absent"
    /\ opened = {}
    /\ calls = 0
    /\ registry = NoRegistry
    /\ path = NoFile
    /\ contentType = "unset"

\* #define under the EMIT top of a file without conditionals: lines 413-423.
SubstDefine ==
    /\ Running
    /\ \E n \in SubstNames, v \in SubstValues :
        /\ line' = Line("define", n, v)
        /\ defines' = [m \in DOMAIN defines \cup {n} |->
                          IF m = n THEN v ELSE defines[m]]
    /\ defLine' = Top.lineNum + 1
    /\ evaluated' = FALSE
    /\ frames' = SetTop(Read)
    /\ out' = KeepLine(out)
    /\ Stay
    /\ UNCHANGED <<status, err>>

\* A content line under the EMIT top, should_substitute on: lines 534-545.
SubstContent ==
    /\ Running
    /\ \E t \in SubstTexts :
        /\ line' = Line("content", t, "")
        /\ out' = Append(out, Substitute(t, defines))
    /\ defLine' = Top.lineNum + 1
    /\ evaluated' = FALSE
    /\ frames' = SetTop(Read)
    /\ Stay
    /\ UNCHANGED <<defines, status, err>>

NextSubst ==
    \/ Start
    \/ SubstDefine
    \/ SubstContent
    \/ EndOfFile

SpecSubst == InitSubst /\ [][NextSubst]_vars


\* ------------------------------------------------------------ include search
\* Spec takes a path as one token and has one directory. SpecSearch runs the
\* search of lines 441-449 over paths that are a directory and a name, with
\* include_paths set; its files hold #include "name" and content lines.
IncludePaths == <<"inc1", "inc2">>
SearchNames == {"a", "b"}
SearchTop == <<"src", "a">>
\* The paths that may exist besides the top-level file.
SearchFiles == {<<"src", "b">>, <<"inc1", "a">>, <<"inc1", "b">>,
                <<"inc2", "b">>}
NoPath == <<>>

\* os.path.dirname(infile)
DirName(p) == p[1]

\* os.path.normpath(os.path.join(d, f)) for a plain relative name f.
Join(d, f) == <<d, f>>

\* The for/else of lines 441-449: the first directory whose candidate
\* exists gives fname; NoPath when the loop runs out.
RECURSIVE Search(_, _, _)
Search(dirs, f, exists) ==
    IF dirs = <<>> THEN NoPath
    ELSE IF Join(Head(dirs), f) \in exists THEN Join(Head(dirs), f)
    ELSE Search(Tail(dirs), f, exists)

\* `[os.path.dirname(infile)] + include_paths`
SearchDirs(infile) == <<DirName(infile)>> \o IncludePaths

InitSearch ==
    /\ status = "idle"
    /\ frames = <<>>
    /\ defines = [n \in {} |-> "1"]
    /\ defFile = ""
    /\ defLine = 0
    /\ preprocessed = <<>>
    /\ fs \in {S \cup {SearchTop} : S \in SUBSET SearchFiles}
    /\ keepLines \in BOOLEAN
    /\ out = <<>>
    /\ err = NoError
    /\ line = NoLine
    /\ evaluated = FALSE
    /\ incLines = 0
    /\ outfile = "stream"
    /\ forceOverwrite = FALSE
    /\ disk = "absent"
    /\ opened = {}
    /\ calls = 0
    /\ registry = NoRegistry
    /\ path = NoFile
    /\ contentType = "unset"

\* The top-level call preprocess(SearchTop, fout, defines): lines 309-394.
SearchStart ==
    /\ status = "idle"
    /\ status' = "running"
    /\ preprocessed' = GuardEnter(preprocessed, SearchTop)
    /\ frames' = <<NewFrame(SearchTop, defines)>>
    /\ defFile' = SearchTop
    /\ disk' = OpenOut(outfile, forceOverwrite, disk)
    /\ opened' = OpenedAtEntry(outfile)
    /\ UNCHANGED <<defines, defLine, fs, keepLines, out, err, line,
                   evaluated, incLines, outfile, forceOverwrite,
                   calls, registry, path, contentType>>

\* #include "name" under the EMIT top of a file without conditionals, up
\* to the recursive call's entry: lines 431-456 and 309-394.
SearchInclude ==
    /\ Running
    /\ \E n \in SearchNames :
        LET fname == Search(SearchDirs(Top.infile), n, fs)
        IN  /\ line' = Line("include", n, "fname")
            /\ IF fname = NoPath \/ RecursiveInclude(fname, preprocessed)
               THEN /\ frames' = SetTop(Read)
                    /\ IF fname = NoPath
                       THEN Raise("PreprocessorError",
                                  "could not find #include'd file", "", 0)
                       ELSE Raise("PreprocessorError",
                                  "detected recursive #include", "", 0)
                    /\ UNCHANGED <<preprocessed, defFile>>
               ELSE /\ frames' = Append(SetTop(Read), NewFrame(fname, defines))
                    /\ preprocessed' = GuardEnter(preprocessed, fname)
                    /\ defFile' = fname
                    /\ UNCHANGED <<status, err>>
    /\ defLine' = Top.lineNum + 1
    /\ evaluated' = FALSE
    /\ UNCHANGED <<defines, out, fs, keepLines, incLines, outfile,
                   forceOverwrite, disk, opened,
                   calls, registry, path, contentType>>

NextSearch ==
    \/ SearchStart
    \/ SearchInclude
    \/ Content
    \/ EndOfFile

SpecSearch == InitSearch /\ [][NextSearch]_vars

\* ------------------------------------------------------------ content types
\* SpecType: ContentTypesRegistry.get_content_type on a registry loaded from
\* content.types lines and a file that exists. A basename is one token; its
\* last dot-suffix and the basenames a regex finds are tables. The registry
\* has at most one regex, so the order of regexMap.items() does not matter.
ContentTypes == {"Python", "Text"}
TypeNames == {"Makefile", "foo.py", "foo.xyz", "notes"}
MakefileRegex == "^[Mm]akefile.*$"

\* `"." + basename.split(".")[-1]` ("": no dot in the basename).
Suffix(basename) ==
    IF basename = "foo.py" THEN ".py"
    ELSE IF basename = "foo.xyz" THEN ".xyz"
    ELSE ""

\* regex.search(basename)
Matches(regex, basename) == regex = MakefileRegex /\ basename = "Makefile"

\* The maps from some of the keys K to the types T.
PartialMaps(K, T) == UNION {[S -> T] : S \in SUBSET K}

\* The registries _loadContentType can build over the model's patterns.
Registries ==
    [filenameMap : PartialMaps({"Makefile", "foo.py"}, ContentTypes),
     suffixMap : PartialMaps({".py", ".xyz"}, ContentTypes),
     regexMap : PartialMaps({MakefileRegex}, ContentTypes)]

\* The files asked about; xml: the content starts with "<?xml".
TypeFiles == [basename : TypeNames, xml : BOOLEAN]

\* get_content_type(path): the filename map, the suffix map and the regex
\* map, each tried while no type is set; then the content is read and a
\* leading "<?xml" sets "XML". "None": no type.
get_content_type(reg, p) ==
    LET byName == IF p.basename \in DOMAIN reg.filenameMap
                  THEN reg.filenameMap[p.basename] ELSE "None"
        bySuffix == IF byName = "None" /\ Suffix(p.basename) # ""
                       /\ Suffix(p.basename) \in DOMAIN reg.suffixMap
                    THEN reg.suffixMap[Suffix(p.basename)] ELSE byName
        found == {r \in DOMAIN reg.regexMap : Matches(r, p.basename)}
        byRegex == IF bySuffix = "None" /\ found # {}
                   THEN reg.regexMap[CHOOSE r \in found : TRUE] ELSE bySuffix
    IN  IF p.xml THEN "XML" ELSE byRegex

InitType ==
    /\ status = "idle"
    /\ frames = <<>>
    /\ defines = [n \in {} |-> "1"]
    /\ defFile = ""
    /\ defLine = 0
    /\ preprocessed = <<>>
    /\ fs = Files
    /\ keepLines = FALSE
    /\ out = <<>>
    /\ err = NoError
    /\ line = NoLine
    /\ evaluated = FALSE
    /\ incLines = 0
    /\ outfile = "stream"
    /\ forceOverwrite = FALSE
    /\ disk = "absent"
    /\ opened = {}
    /\ calls = 0
    /\ registry \in Registries
    /\ path \in TypeFiles
    /\ contentType = "unset"

\* registry.get_content_type(path): lines 697-735.
GetContentType ==
    /\ contentType = "unset"
    /\ contentType' = get_content_type(registry, path)
    /\ UNCHANGED <<status, frames, defines, defFile, defLine, preprocessed,
                   fs, keepLines, out, err, line, evaluated, incLines,
                   outfile, forceOverwrite, disk, opened, calls, registry,
                   path>>

NextType == GetContentType

SpecType == InitType /\ [][NextType]_vars

\* ------------------------------------------------------------ fixed files
\* Spec draws each line as it is read, within a budget of lines. SpecLive
\* runs on files whose lines are fixed before the call: fs maps a path to
\* its lines, a call has read its file into `lines` when it starts, and no
\* budget stops it. The files hold content lines and #include "path".
\* MaxDepth caps the depth of the call stack, so that a run that would
\* recurse for ever stops there, still running.
MaxFileLen == 2
MaxDepth == 4
LiveFiles == {"a", "b"}
LiveLines == ContentLines
    \cup {Line("include", f, "fname") : f \in LiveFiles \cup {"c"}}
LiveTexts == UNION {[1..n -> LiveLines] : n \in 0..MaxFileLen}

\* A call's state once `lines = fin.readlines()` has run.
LiveFrame(infile, defs, lines) ==
    LET fr == NewFrame(infile, defs)
    IN  [k \in DOMAIN fr \cup {"lines"} |->
            IF k = "lines" THEN lines ELSE fr[k]]

\* The line the loop of the running call handles next.
NextLine == Top.lines[Top.lineNum + 1]

\* The loop of the running call has a line left.
InLoop == status = "running" /\ Top.lineNum < Len(Top.lines)

InitLive ==
    /\ status = "idle"
    /\ frames = <<>>
    /\ defines = [n \in {} |-> "1"]
    /\ defFile = ""
    /\ defLine = 0
    /\ preprocessed = <<>>
    /\ fs \in [LiveFiles -> LiveTexts]
    /\ keepLines = FALSE
    /\ out = <<>>
    /\ err = NoError
    /\ line = NoLine
    /\ evaluated = FALSE
    /\ incLines = 0
    /\ outfile = "stream"
    /\ forceOverwrite = FALSE
    /\ disk = "absent"
    /\ opened = {}
    /\ calls = 0
    /\ registry = NoRegistry
    /\ path = NoFile
    /\ contentType = "unset"

\* The top-level call preprocess(TopFile, fout, defines): lines 309-394.
LiveStart ==
    /\ status = "idle"
    /\ status' = "running"
    /\ preprocessed' = GuardEnter(preprocessed, TopFile)
    /\ frames' = <<LiveFrame(TopFile, defines, fs[TopFile])>>
    /\ defFile' = TopFile
    /\ disk' = OpenOut(outfile, forceOverwrite, disk)
    /\ opened' = OpenedAtEntry(outfile)
    /\ UNCHANGED <<defines, defLine, fs, keepLines, out, err, line,
                   evaluated, incLines, outfile, forceOverwrite,
                   calls, registry, path, contentType>>

\* A content line: lines 532-553.
LiveContent ==
    /\ InLoop
    /\ NextLine.op = "content"
    /\ line' = NextLine
    /\ defLine' = Top.lineNum + 1
    /\ evaluated' = FALSE
    /\ frames' = SetTop(Read)
    /\ out' = ContentOut(Last(Top.states), NextLine.arg, out)
    /\ Stay
    /\ UNCHANGED <<defines, status, err>>

\* #include "path", up to the recursive call's entry: lines 431-456 and
\* 309-394.
LiveInclude ==
    /\ InLoop
    /\ NextLine.op = "include"
    /\ Len(frames) < MaxDepth
    /\ LET fname == FindInclude(NextLine.arg, DOMAIN fs)
       IN  IF fname = "" \/ RecursiveInclude(fname, preprocessed)
           THEN /\ frames' = SetTop(Read)
                /\ IF fname = ""
                   THEN Raise("PreprocessorError",
                              "could not find #include'd file", "", 0)
                   ELSE Raise("PreprocessorError",
                              "detected recursive #include", "", 0)
                /\ UNCHANGED <<preprocessed, defFile>>
           ELSE /\ frames' = Append(SetTop(Read),
                                    LiveFrame(fname, defines, fs[fname]))
                /\ preprocessed' = GuardEnter(preprocessed, fname)
                /\ defFile' = fname
                /\ UNCHANGED <<status, err>>
    /\ line' = NextLine
    /\ defLine' = Top.lineNum + 1
    /\ evaluated' = FALSE
    /\ UNCHANGED <<defines, out, fs, keepLines, incLines, outfile,
                   forceOverwrite, disk, opened,
                   calls, registry, path, contentType>>

\* The loop has run out of lines: lines 554-564.
LiveEnd ==
    /\ status = "running"
    /\ Top.lineNum = Len(Top.lines)
    /\ EndOfFile

NextLive ==
    \/ LiveStart
    \/ LiveContent
    \/ LiveInclude
    \/ LiveEnd

\* The call is one sequential run: it takes its next step when it has one.
SpecLive == InitLive /\ [][NextLive]_vars /\ WF_vars(NextLive)

\* ------------------------------------------------------------ two calls
\* SpecTwice: top-level calls one after the other, each made without a
\* `defines` argument, so each works on the default of the parameter, the
\* one dict made when the function was defined. The budget of lines is one
\* for all the calls: incLines takes over the lines of a call that ended.
MaxCalls == 1

\* The table a call made without `defines` works on: the default object,
\* as the calls before left it.
DefaultDefines(left) == left

InitTwice ==
    /\ status = "idle"
    /\ frames = <<>>
    /\ defines = [n \in {} |-> "1"]
    /\ defFile = ""
    /\ defLine = 0
    /\ preprocessed = <<>>
    /\ fs = Files
    /\ keepLines = FALSE
    /\ out = <<>>
    /\ err = NoError
    /\ line = NoLine
    /\ evaluated = FALSE
    /\ incLines = 0
    /\ outfile = "stream"
    /\ forceOverwrite = FALSE
    /\ disk = "absent"
    /\ opened = {}
    /\ calls = 0
    /\ registry = NoRegistry
    /\ path = NoFile
    /\ contentType = "unset"

\* The call before has returned or raised; the caller makes the next call
\* preprocess(TopFile), `defines` and `_preprocessed_files` left out:
\* lines 261-270 and 309-394.
CallAgain ==
    /\ status \in {"done", "failed"}
    /\ calls < MaxCalls
    /\ calls' = calls + 1
    /\ status' = "running"
    /\ err' = NoError
    /\ line' = NoLine
    /\ evaluated' = FALSE
    /\ defines' = DefaultDefines(defines)
    /\ preprocessed' = GuardEnter(<<>>, TopFile)
    /\ frames' = <<NewFrame(TopFile, DefaultDefines(defines))>>
    /\ defFile' = TopFile
    /\ incLines' = incLines + LinesRead(frames)
    /\ disk' = OpenOut(outfile, forceOverwrite, disk)
    /\ opened' = OpenedAtEntry(outfile)
    /\ UNCHANGED <<defLine, fs, keepLines, out, outfile, forceOverwrite,
                   registry, path, contentType>>

NextTwice ==
    \/ Next
    \/ CallAgain

SpecTwice == InitTwice /\ [][NextTwice]_vars

\* ------------------------------------------------------------ claims
\* The running call's stack is not empty and its top has this mode.
TopIs(mode) == Top.states # <<>> /\ Last(Top.states)[1] = mode

\* The files of the active include chain.
Chain == {frames[i].infile : i \in 1..Len(frames)}

\* The blocks a call has open that an #if, #ifdef or #ifndef pushed.
OpenIfs(fr) == {k \in 1..Len(fr.blocks) : fr.blocks[k].byIf}

\* C1: in a block opened by #if, #ifdef or #ifndef at most one branch is
\* ever EMIT: once a branch was EMIT every later #elif and #else leaves the
\* block in SKIP, also an #elif whose condition is true.
C1_AtMostOneBranchEmits ==
    \A i \in 1..Len(frames) : \A k \in OpenIfs(frames[i]) :
        /\ frames[i].blocks[k].nEmit <= 1
        /\ frames[i].states[k][1] = EMIT => frames[i].blocks[k].nEmit = 1

C1_Witness ==
    /\ status = "running"
    /\ line = Line("elif", "1", "")
    /\ Last(Top.blocks).byIf
    /\ Last(Top.blocks).nEmit = 1
    /\ Last(Top.states) = <<SKIP, 1, 0>>

\* C2: a call returns only if the conditional directives of its file are
\* balanced: no #endif without an open #if, no block open at the end.
C2_ReturnsOnlyIfBalanced ==
    status = "done" => ~frames[1].surplus /\ OpenIfs(frames[1]) = {}

\* C3: an #elif or #else with no open #if in its file fails; the call
\* never goes on after one.
C3_ElifElseWithoutIfFails ==
    (line.op \in {"elif", "else"} /\ OpenIfs(Top) = {})
      => /\ status = "failed"
         /\ err.type = "PreprocessorError"
         /\ err.file = Top.infile /\ err.line = Top.lineNum

\* C4: an #elif or #else after the #else of its block fails with the
\* 'illegal ... after #else' error, whatever the mode of the block and of
\* the blocks around it: no block takes a second #else, none takes an
\* #elif after its #else.
C4_NothingAfterElse ==
    /\ \A i \in 1..Len(frames) : \A k \in 1..Len(frames[i].blocks) :
            frames[i].blocks[k].nElse <= 1
    /\ (status = "running" /\ line.op = "elif" /\ Top.blocks # <<>>)
          => Last(Top.blocks).nElse = 0
    /\ (status = "failed" /\ line.op \in {"elif", "else"} /\ Top.blocks # <<>>
           /\ Last(Top.blocks).nElse = 1)
          => /\ err.type = "PreprocessorError"
             /\ err.msg = "illegal #" \o line.op \o " after #else in same #if block"
             /\ err.file = defFile /\ err.line = Top.lineNum

\* An #elif after an #else in a block that lies in a skipped region.
C4_Witness ==
    /\ status = "failed"
    /\ line.op = "elif"
    /\ Len(Top.states) = 3
    /\ Top.states[2][1] = SKIP
    /\ Last(Top.states) = <<SKIP, 0, 1>>
    /\ err.msg = "illegal #elif after #else in same #if block"

\* C5: while lines are processed the conditional stack of a call is never
\* empty.
C5_StackNeverEmpty ==
    \A i \in 1..Len(frames) : frames[i].states # <<>>

\* The file an #include line resolves to ("" when there is none).
IncludeTarget == FindInclude(IncludeRef(line, defines), fs)

\* C6: an #include executed in EMIT mode whose target is in the active
\* include chain fails with 'recursive #include'; no file is ever entered
\* while a call on it is on the stack.
C6_RecursiveIncludeFails ==
    /\ \A i, j \in 1..Len(frames) :
           i # j => frames[i].infile # frames[j].infile
    /\ (/\ status \in {"running", "failed"}
        /\ line.op = "include"
        /\ Top.lineNum > 0
        /\ ~TopIs(SKIP)
        /\ IncludeTarget \in Chain)
          => /\ status = "failed"
             /\ err.type = "PreprocessorError"
             /\ err.msg = "detected recursive #include"

\* a includes b, b includes a.
C6_Witness ==
    /\ status = "failed"
    /\ err.msg = "detected recursive #include"
    /\ Len(frames) = 2
    /\ Top.infile = "b"
    /\ line = Line("include", "a", "fname")

\* C7: the recursion guard holds exactly the files of the active include
\* chain, so a file whose #include has returned may be included again.
C7_GuardIsActiveChain ==
    status = "running" => Range(preprocessed) = Chain

IfOps == {"if", "ifdef", "ifndef"}

\* C9: an #if, #ifdef or #ifndef under a SKIP top pushes (SKIP,0,0) without
\* evaluating its condition, and an #elif of a block whose enclosing block
\* is SKIP is not evaluated: no condition fails in a skipped region.
C9_NoEvaluationWhenSkipped ==
    /\ (status = "running" /\ line.op \in IfOps /\ Len(Top.states) >= 2
           /\ Top.states[Len(Top.states) - 1][1] = SKIP)
          => ~evaluated /\ Last(Top.states) = <<SKIP, 0, 0>>
    /\ (status = "failed" /\ line.op \in IfOps) => ~TopIs(SKIP)
    /\ (status \in {"running", "failed"} /\ line.op = "elif"
           /\ Len(Top.states) >= 2
           /\ Top.states[Len(Top.states) - 1][1] = SKIP)
          => /\ ~evaluated
             /\ status = "failed"
                  => err.msg = "illegal #elif after #else in same #if block"

\* An #if with a syntax error, pushed as (SKIP,0,0) and not evaluated.
C9_Witness ==
    /\ status = "running"
    /\ line = Line("if", BadSyntax, "")
    /\ Len(Top.states) = 3
    /\ Last(Top.states) = <<SKIP, 0, 0>>
    /\ ~evaluated

\* A step that handles a line.
LineStep == status = "running" /\ line'.op # ""

C11_PositionIsCurrent ==
    (status \in {"running", "failed"} /\ (evaluated \/ status = "failed"))
      => defFile = Top.infile /\ defLine = Top.lineNum

\* C12: the define table an #include'd call ends with is the table of the
\* including file from there on: what the included file defined or
\* undefined stays so when the call returns.
C12_IncludedDefinesReturn ==
    [][(status = "running" /\ status' = "running" /\ Len(frames') < Len(frames))
        => defines' = defines]_vars

\* Back in the top-level file after its first line, an #include: A is
\* defined, and was not when the call started.
C12_Witness ==
    /\ status = "running"
    /\ Len(frames) = 1
    /\ Top.lineNum = 1
    /\ incLines >= 1
    /\ "A" \in DOMAIN defines
    /\ "A" \notin DOMAIN Top.entry

\* The output after one more blank line, written only if lines are kept.
BlankIfKept(o) == IF keepLines THEN Append(o, "\n") ELSE o

\* A step that handles a line without entering a file.
HandlesInPlace == LineStep /\ Len(frames') = Len(frames)

C14_NoPartialOutputOnFailure ==
    status = "failed" => \A l \in ContentLines : l.arg \notin Range(out)

\* C15: once the call has handed control back, by returning or by raising,
\* no handle it opened is still open.
C15_HandlesClosedOnEveryExit ==
    status \in {"done", "failed"} => opened = {}

\* C16: an output path that exists and no force: the call fails and the
\* file stays as it was; under force the file is removed and created anew
\* and the call goes on.
C16_ExistingOutputNeedsForce ==
    (outfile = "path" /\ status # "idle")
      => /\ ~forceOverwrite => disk \in {"created", "old"}
         /\ (~forceOverwrite /\ disk = "old") => status = "failed"
         /\ forceOverwrite => disk = "created"

\* C17: an #error met under an EMIT top ends the call with a preprocessor
\* failure at the running file and the line of the directive, its message
\* the argument of the directive; under EMIT the call never goes on.
C17_ErrorStopsWithItsArgument ==
    /\ (status = "failed" /\ line.op = "error")
         => /\ err.type = "PreprocessorError"
            /\ err.file = Top.infile
            /\ err.line = Top.lineNum
            /\ err.msg = line.arg
    /\ (status = "running" /\ line.op = "error") => TopIs(SKIP)

\* C18: an `#include VAR` met under an EMIT top with VAR not defined ends
\* the call with a preprocessor failure that carries the file and the line;
\* no file is entered.
C18_IncludeOfUndefinedIsStructured ==
    (line.op = "include" /\ line.val = "var" /\ line.arg \notin DOMAIN defines
      /\ status \in {"running", "failed"} /\ ~TopIs(SKIP))
      => /\ status = "failed"
         /\ err.type = "PreprocessorError"
         /\ err.file = Top.infile
         /\ err.line = Top.lineNum

\* The line with every defined name replaced in one pass from left to
\* right, the longest name that matches first; what a replacement put in
\* is not looked at again.
RECURSIVE SinglePass(_, _)
SinglePass(s, defs) ==
    IF s = <<>> THEN <<>>
    ELSE LET ms == {n \in DOMAIN defs :
                      Len(n) <= Len(s) /\ SubSeq(s, 1, Len(n)) = n}
         IN  IF ms = {} THEN <<s[1]>> \o SinglePass(Tail(s), defs)
             ELSE LET n == CHOOSE n \in ms : \A m \in ms : Len(m) <= Len(n)
                  IN  defs[n] \o SinglePass(SubSeq(s, Len(n) + 1, Len(s)), defs)

\* C19: with substitution on, the line written for a content line is the
\* line with its defined names replaced in a single pass, longest name
\* first: a value that holds the name of another symbol is left as is.
C19_SubstitutionIsSinglePass ==
    (status = "running" /\ line.op = "content")
      => out[Len(out)] = SinglePass(line.arg, defines)

\* C20: #ifdef NAME opens an EMIT branch, and #ifndef NAME a SKIP branch,
\* exactly when NAME is a key of the define table as the directive is
\* handled, whatever its value; once an #undef of NAME has been executed
\* NAME is not a key.
C20_DefinedIsKeyMembership ==
    /\ (status = "running" /\ line.op \in {"ifdef", "ifndef"} /\ evaluated)
         => (TopIs(EMIT) <=> (line.op = "ifdef" <=> line.arg \in DOMAIN defines))
    /\ (status = "running" /\ line.op = "undef" /\ ~TopIs(SKIP))
         => line.arg \notin DOMAIN defines

\* An #ifdef of a symbol whose value is false has opened an EMIT branch.
C20_Witness ==
    /\ status = "running"
    /\ line.op = "ifdef"
    /\ evaluated
    /\ line.arg \in DOMAIN defines
    /\ defines[line.arg] \in {"None", "0"}
    /\ TopIs(EMIT)

\* C21: an #if or #elif whose condition is evaluated and is a name that is
\* not defined ends the call with a preprocessor failure that names the
\* symbol and carries the running file and the line of the directive; the
\* conditional stack of the call is left as it was.
C21_UndefinedNameInCondition ==
    [][(LineStep /\ line'.op \in {"if", "elif"} /\ evaluated'
          /\ line'.arg \in Names \ DOMAIN defines)
        => /\ status' = "failed"
           /\ err'.type = "PreprocessorError"
           /\ err'.msg = "name '" \o line'.arg \o "' is not defined"
           /\ err'.file = Top.infile
           /\ err'.line = Top.lineNum + 1
           /\ Len(frames') = Len(frames)
           /\ frames'[Len(frames)].states = Top.states
      ]_vars

\* The candidates of an #include "f" met in the running call, in the order
\* the claim gives: the including file's directory, then the include path.
Candidates(f) ==
    [i \in 1..(Len(IncludePaths) + 1) |->
        IF i = 1 THEN <<Top.infile[1], f>> ELSE <<IncludePaths[i - 1], f>>]

\* The first candidate that exists (NoPath when none does).
FirstExisting(f) ==
    LET c == Candidates(f)
        ok == {i \in 1..Len(c) : c[i] \in fs}
    IN  IF ok = {} THEN NoPath
        ELSE c[CHOOSE i \in ok : \A j \in ok : i <= j]

\* C22: an #include executed in EMIT mode enters the first candidate that
\* exists, the including file's directory tried first and then the include
\* path in order (a candidate that is a file of the active include chain is
\* C6's failure); when no candidate exists the call fails with 'could not
\* find' and no file is entered.
C22_FirstExistingCandidateIsEntered ==
    [][(LineStep /\ line'.op = "include" /\ ~TopIs(SKIP))
        => LET first == FirstExisting(line'.arg)
           IN  /\ (first # NoPath /\ first \notin Chain)
                    => /\ status' = "running"
                       /\ Len(frames') = Len(frames) + 1
                       /\ frames'[Len(frames')].infile = first
               /\ first = NoPath
                    => /\ status' = "failed"
                       /\ err'.type = "PreprocessorError"
                       /\ err'.msg = "could not find #include'd file"
                       /\ Len(frames') = Len(frames)
      ]_vars

\* The type the claim gives a file: the first of the filename map, the
\* suffix map and the regex map that knows it, and "XML" for a leading
\* "<?xml" only when none of the three does.
TypeInOrder(reg, p) ==
    IF p.basename \in DOMAIN reg.filenameMap THEN reg.filenameMap[p.basename]
    ELSE IF Suffix(p.basename) \in DOMAIN reg.suffixMap
    THEN reg.suffixMap[Suffix(p.basename)]
    ELSE IF \E r \in DOMAIN reg.regexMap : Matches(r, p.basename)
    THEN reg.regexMap[CHOOSE r \in DOMAIN reg.regexMap : Matches(r, p.basename)]
    ELSE IF p.xml THEN "XML"
    ELSE "None"

\* C23: the content type returned is the first match of basename, suffix,
\* regex; the "<?xml" sniff decides only when all three found nothing.
C23_SniffOnlyWhenUnresolved ==
    contentType # "unset" => contentType = TypeInOrder(registry, path)

\* C24: on files whose lines are fixed, whatever they include, the
\* top-level call ends, returning or failing; the depth of the include
\* chain stays below the cap of the model, so it is the recursion guard
\* that ends every cycle.
C24_IncludeCyclesTerminate ==
    /\ [](Len(frames) < MaxDepth)
    /\ <>(status \in {"done", "failed"})

\* a includes b and b includes a: the guard has ended the call in b.
C24_Witness ==
    /\ status = "failed"
    /\ err.msg = "detected recursive #include"
    /\ Len(frames) = 2
    /\ line = Line("include", TopFile, "fname")

\* C25: an #undef of a name that is not a key fails nothing and leaves the
\* define table as it is, and the call goes on to the next line; an #undef
\* of a key under an EMIT top removes that key and no other.
C25_UndefOfUndefinedIsNoOp ==
    [][(LineStep /\ line'.op = "undef")
        => /\ status' = "running"
           /\ err' = err
           /\ frames' = [frames EXCEPT ![Len(frames)].lineNum = @ + 1]
           /\ line'.arg \notin DOMAIN defines => defines' = defines
           /\ (line'.arg \in DOMAIN defines /\ TopIs(EMIT))
                => /\ DOMAIN defines' = DOMAIN defines \ {line'.arg}
                   /\ \A n \in DOMAIN defines' : defines'[n] = defines[n]
                   /\ defFile' = defFile
      ]_vars

\* The first line of the top-level file was an #undef of a key: the key is
\* gone and the other symbol of the table is still there.
C25_Witness ==
    /\ status = "running"
    /\ Len(frames) = 1
    /\ Top.lineNum = 1
    /\ line.op = "undef"
    /\ line.arg \in DOMAIN Top.entry
    /\ line.arg \notin DOMAIN defines
    /\ OtherName \in DOMAIN defines

\* C26: an #elif or #else met at stack depth 2 or more with no #else seen
\* in the block sets the top in this order: the block has emitted, SKIP
\* with the emitted flag kept; else the enclosing entry is SKIP, SKIP; else
\* #elif evaluates its condition (EMIT when true, SKIP when false) and
\* #else is EMIT. The condition is evaluated in the last case only; the
\* depth and the entries below the top stay.
C26_ElifElsePriority ==
    [][(LineStep /\ line'.op \in {"elif", "else"}
          /\ Len(Top.states) >= 2 /\ Last(Top.states)[3] = 0)
        => LET old == Top.states
               top == old[Len(old)]
               below == old[Len(old) - 1]
               new == frames'[Len(frames)].states
               e == IF line'.op = "else" THEN 1 ELSE 0
               r == Evaluate(line'.arg, defines)
           IN  /\ Len(frames') = Len(frames)
               /\ Len(new) = Len(old)
               /\ \A k \in 1..(Len(old) - 1) : new[k] = old[k]
               /\ top[2] = 1
                    => /\ new[Len(new)] = <<SKIP, 1, e>>
                       /\ ~evaluated'
                       /\ status' = "running"
               /\ (top[2] = 0 /\ below[1] = SKIP)
                    => /\ new[Len(new)] = <<SKIP, 0, e>>
                       /\ ~evaluated'
                       /\ status' = "running"
               /\ (top[2] = 0 /\ below[1] = EMIT /\ line'.op = "else")
                    => /\ new[Len(new)] = <<EMIT, 1, 1>>
                       /\ ~evaluated'
                       /\ status' = "running"
               /\ (top[2] = 0 /\ below[1] = EMIT /\ line'.op = "elif")
                    => /\ evaluated'
                       /\ status' = "running"
                            => /\ r.ok
                               /\ new[Len(new)] = IF r.val THEN <<EMIT, 1, 0>>
                                                  ELSE <<SKIP, 0, 0>>
                       /\ status' = "failed"
                            => ~r.ok /\ new[Len(new)] = top
      ]_vars

\* An #elif met in a block that had not emitted, inside a skipped block:
\* the top is SKIP and no condition was evaluated.
C26_Witness ==
    /\ status = "running"
    /\ line.op = "elif"
    /\ Len(Top.states) = 3
    /\ Top.states[2][1] = SKIP
    /\ Top.states[3] = <<SKIP, 0, 0>>
    /\ ~evaluated

\* C27: in the conditional stack of every call an entry above a SKIP entry
\* is SKIP: when the top is EMIT every entry below it is EMIT.
C27_SkipIsInherited ==
    \A i \in 1..Len(frames) :
        \A j \in 1..Len(frames[i].states) : \A k \in j..Len(frames[i].states) :
            frames[i].states[j][1] = SKIP => frames[i].states[k][1] = SKIP

\* An #else met in a block inside a skipped block has left the top SKIP.
C27_Witness ==
    /\ status = "running"
    /\ line.op = "else"
    /\ Len(Top.states) = 3
    /\ Top.states[2][1] = SKIP
    /\ Top.states[3] = <<SKIP, 0, 1>>

\* A step that returns from an #include'd call to the call that made it.
ReturnStep ==
    status = "running" /\ status' = "running" /\ Len(frames') < Len(frames)

\* C28: every call has its own conditional stack. An #include'd call
\* starts from the sentinel alone; it returns only with its own directives
\* balanced, no #endif of its file without an #if of its file and no #if of
\* its file left open; the stacks of the calls below the running one never
\* change, so the includer goes on with the stack it had at the #include.
C28_OwnStackPerFile ==
    [][/\ (LineStep /\ Len(frames') > Len(frames))
          => /\ frames'[Len(frames')].states = <<<<EMIT, 0, 0>>>>
             /\ frames'[Len(frames)].states = Top.states
       /\ ReturnStep
          => /\ ~Top.surplus
             /\ OpenIfs(Top) = {}
             /\ frames'[Len(frames')].states = frames[Len(frames')].states
       /\ \A i \in 1..(Len(frames) - 1) :
             i <= Len(frames') => frames'[i].states = frames[i].states
      ]_vars

\* C29: the output is written in the order of the depth-first run. Every
\* step only appends to the sink; while an #include'd call runs the calls
\* below it handle no line, so what the call and the calls it makes write
\* lies between the includer's lines before and after the #include;
\* entering the file writes nothing and the blank line kept for the
\* #include is written when its call returns; the #include'd call leaves
\* the sink open.
C29_OutputFollowsIncludeOrder ==
    [][/\ Len(out') >= Len(out) /\ SubSeq(out', 1, Len(out)) = out
       /\ \A i \in 1..(Len(frames) - 1) :
             i <= Len(frames') => frames'[i].lineNum = frames[i].lineNum
       /\ (LineStep /\ Len(frames') > Len(frames)) => out' = out
       /\ ReturnStep => out' = BlankIfKept(out)
       /\ (status = "running" /\ Len(frames) > 1)
             => opened' = opened /\ (outfile = "path" => "fout" \in opened')
      ]_vars

\* Lines are kept and the output is a file: the top-level file wrote a
\* line, the file it then included wrote one and returned, and the blank
\* line of the #include followed; the handle on the output is open.
C29_Witness ==
    /\ status = "running"
    /\ keepLines
    /\ Len(frames) = 1
    /\ Top.lineNum = 2
    /\ incLines = 1
    /\ line = NoLine
    /\ out = <<"x", "x", "\n">>
    /\ "fout" \in opened

\* C30: a top-level call made without `defines` after another such call
\* starts on a table with no key of the call before: no symbol a #define
\* of that call set, and no __LINE__ that call left.
C30_DefaultCallsAreIndependent ==
    (calls >= 1 /\ status = "running")
      => /\ DOMAIN frames[1].entry = {}
         /\ (Len(frames) = 1 /\ Top.lineNum = 0) => defLine = 0

====
